---- MODULE Spec2Model ----
(***************************************************************************)
(* icycat: a model of the triggerWriter gate (src/triggerwriter.go), of    *)
(* the packet-size normalisation of openOutput, and of the tasks of the    *)
(* v2 program in src/icycat.go (main's retry copy loop, the reconnect      *)
(* goroutine of ICECASTReader, and the drain, gated-serve and shutdown     *)
(* goroutines of openOutput).                                              *)
(*                                                                         *)
(* The specifications share the variables:                                 *)
(*   SpecGate  concurrent callers of triggerWriter.Write / Close           *)
(*   SpecNorm  openOutput's pkt_size computation over a range of inputs    *)
(*   Spec      the running pipeline with a file output, a discrete clock   *)
(*   SpecMux   the running pipeline with a muxed output                    *)
(*   SpecSvc   either output, with every kind of source headers            *)
(*   FairSpec  the muxed pipeline under fair scheduling of its goroutines  *)
(***************************************************************************)
EXTENDS Integers, Sequences, FiniteSets

(* ------------------------------ bounds --------------------------------- *)
NumCallers == 3
MaxCallsPer == 1
MaxReq == 1510
NegReq == 200
MaxTimeout == 2
MaxOpens == 3
MaxChunks == 2
PipeCap == 2
MuxOpens == 2
MuxChunks == 1
MuxCap == 1

(* ------------------------- program constants --------------------------- *)
TsPacketSize == 188
DefaultPacketSize == 1316

VARIABLES
    \* triggerWriter (shared by SpecGate and Spec)
    onceDone,      \* sync.Once: the done flag
    chCloses,      \* number of close(w.ch) executed; 2 is a panic
    \* SpecGate: concurrent callers
    onceMu,        \* sync.Once: the mutex holder, 0 when free
    gpc,           \* caller -> position inside Write / Close
    gkind,         \* caller -> "none" | "write" | "close"
    gcalls,        \* caller -> calls started
    gio,           \* caller -> calls forwarded to the underlying writer
    \* SpecNorm: openOutput's packet size
    npc,           \* "start" | "done" | "error" | "skipped"
    isUdp,         \* uri.Scheme == "udp"
    flagPktSize,   \* Flags.PacketSize
    urlPktSize,    \* the pkt_size query value: [kind, val]
    pktSize,       \* the value written back into the query
    \* Spec: the pipeline
    muxed,         \* the output is udp: / mpegts:
    T,             \* Flags.Timeout, in clock ticks
    maxOpens,      \* the run's budget of files.Open calls
    maxChunks,     \* the most chunks one connection yields
    pipeCap,       \* the most chunks a bufpipe holds
    hdrs,          \* the source's headers: "none" | "unnamed" | "named"
    closeErrs,     \* the results wr.Close and mux.Close may give: failed or not
    proc,          \* "running" | "fatal" | "panic" | "exited"
    cancelled,     \* ctx.Done() is closed
    mainPc, mainTimer, mainBuf, lastOutcome, mainExit,
    copied,        \* main has started an outer copy
    sinceCopy,     \* ticks since the start of the last outer copy, capped at T
    mainIdle,      \* ticks the outer copy has gone without progress, capped at T + 1
    srPc, srTimer, f, connLeft, srLast,
    openHandles,   \* source handles opened and not yet closed
    srIdle,        \* ticks the inner copy has gone without progress, capped at T + 1
    openLog,       \* outcome of every files.Open of reopen, in order
    discCount,     \* invocations of discontinuity()
    sinceReopen,   \* ticks since the last reopen, capped at T
    handoff, handoffClosed,   \* ICECASTReader's bufpipe
    writeIssued,   \* out.Write was called with payload
    closeCalls,    \* calls of out.Close
    pipe2, pipe2Closed,       \* openOutput's bufpipe
    servePc, drainPc, shutPc,
    frameWritten,  \* wr.Write succeeded at least once
    wrCloses, muxCloses,
    sinkLog,       \* the errors logged by the drain and shutdown goroutines
    sdt            \* the multiplexer's service table: "unset" | "icy" | "file"

gateVars == <<onceMu, gpc, gkind, gcalls, gio>>
onceVars == <<onceDone, chCloses>>
normVars == <<npc, isUdp, flagPktSize, urlPktSize, pktSize>>
mainVars == <<mainPc, mainTimer, mainBuf, lastOutcome, mainExit,
              copied, sinceCopy, mainIdle>>
srVars   == <<srPc, srTimer, f, connLeft, srLast, openHandles, srIdle>>
openVars == <<openLog, discCount, sinceReopen>>
handVars == <<handoff, handoffClosed>>
sinkVars == <<writeIssued, closeCalls, pipe2, pipe2Closed>>
taskVars == <<servePc, drainPc, shutPc, frameWritten, wrCloses, muxCloses,
              sinkLog, sdt>>
confVars == <<muxed, T, maxOpens, maxChunks, pipeCap, hdrs, closeErrs>>
pipeVars == <<confVars, proc, cancelled, mainVars, srVars, openVars,
              handVars, sinkVars, taskVars>>
vars == <<onceVars, gateVars, normVars, pipeVars>>

Callers == 1..NumCallers

(* ----------------- idle values of the parts a spec leaves alone -------- *)
GateIdle ==
    /\ onceMu = 0
    /\ gpc = [c \in Callers |-> "idle"]
    /\ gkind = [c \in Callers |-> "none"]
    /\ gcalls = [c \in Callers |-> 0]
    /\ gio = [c \in Callers |-> 0]

NormIdle ==
    /\ npc = "skipped"
    /\ isUdp = FALSE
    /\ flagPktSize = DefaultPacketSize
    /\ urlPktSize = [kind |-> "none", val |-> 0]
    /\ pktSize = DefaultPacketSize

PipeIdle ==
    /\ muxed = FALSE /\ T = 1
    /\ maxOpens = 0 /\ maxChunks = 0 /\ pipeCap = 0
    /\ hdrs = "none" /\ closeErrs = {FALSE}
    /\ proc = "exited" /\ cancelled = FALSE
    /\ mainPc = "exited" /\ mainTimer = 0 /\ mainBuf = 0
    /\ lastOutcome = "none" /\ mainExit = "none"
    /\ copied = FALSE /\ sinceCopy = 0 /\ mainIdle = 0
    /\ srPc = "off" /\ srTimer = 0 /\ f = "nil" /\ connLeft = 0
    /\ srLast = "none" /\ openHandles = 0 /\ srIdle = 0
    /\ openLog = <<>> /\ discCount = 0 /\ sinceReopen = 0
    /\ handoff = <<>> /\ handoffClosed = FALSE
    /\ writeIssued = FALSE /\ closeCalls = 0
    /\ pipe2 = <<>> /\ pipe2Closed = FALSE
    /\ servePc = "off" /\ drainPc = "off" /\ shutPc = "off"
    /\ frameWritten = FALSE /\ wrCloses = 0 /\ muxCloses = 0
    /\ sinkLog = {} /\ sdt = "unset"

(***************************************************************************)
(* triggerWriter under concurrent callers (SpecGate).                      *)
(* sync.Once.Do(f): a fast-path load of done; otherwise lock, re-check,    *)
(* call f, store done, unlock.                                             *)
(***************************************************************************)
InitGate ==
    /\ onceDone = FALSE /\ chCloses = 0
    /\ GateIdle /\ NormIdle /\ PipeIdle

\* trigger(): close(w.ch); closing a closed channel panics (chCloses = 2)
trigger == chCloses' = chCloses + 1

\* a caller enters Write or Close
GateCall(c, k) ==
    /\ gpc[c] = "idle" /\ gcalls[c] < MaxCallsPer
    /\ chCloses < 2
    /\ gkind' = [gkind EXCEPT ![c] = k]
    /\ gcalls' = [gcalls EXCEPT ![c] = @ + 1]
    /\ gpc' = [gpc EXCEPT ![c] = "do"]
    /\ UNCHANGED <<onceVars, onceMu, gio>>

\* the wrong entry: w.trigger() called directly, not through w.once
GateEnter_NoOnce(c) ==
    /\ gpc[c] = "do" /\ chCloses < 2
    /\ trigger
    /\ gpc' = [gpc EXCEPT ![c] = "io"]
    /\ UNCHANGED <<onceDone, onceMu, gkind, gcalls, gio>>

\* the wrong entry: the call goes to the underlying writer without once.Do
GateEnter_NoDo(c) ==
    /\ gpc[c] = "do" /\ chCloses < 2
    /\ gpc' = [gpc EXCEPT ![c] = "io"]
    /\ UNCHANGED <<onceVars, onceMu, gkind, gcalls, gio>>

\* w.once.Do(w.trigger): the fast path loads done; if it is not set the
\* caller goes on to doSlow
GateEnter(c) ==
    /\ gpc[c] = "do" /\ chCloses < 2
    /\ gpc' = [gpc EXCEPT ![c] = IF onceDone THEN "io" ELSE "lock"]
    /\ UNCHANGED <<onceVars, onceMu, gkind, gcalls, gio>>

\* doSlow: o.m.Lock() blocks until the mutex is free
GateLock(c) ==
    /\ gpc[c] = "lock" /\ chCloses < 2
    /\ onceMu = 0
    /\ onceMu' = c
    /\ gpc' = [gpc EXCEPT ![c] = "locked"]
    /\ UNCHANGED <<onceVars, gkind, gcalls, gio>>

\* doSlow under the mutex: if done == 0 { f(); done = 1 }; unlock
GateDoSlow(c) ==
    /\ gpc[c] = "locked" /\ onceMu = c /\ chCloses < 2
    /\ IF ~onceDone
          THEN trigger /\ onceDone' = TRUE
          ELSE UNCHANGED onceVars
    /\ onceMu' = 0
    /\ gpc' = [gpc EXCEPT ![c] = "io"]
    /\ UNCHANGED <<gkind, gcalls, gio>>

\* return w.w.Write(b) / return w.w.Close()
GateIO(c) ==
    /\ gpc[c] = "io" /\ chCloses < 2
    /\ gio' = [gio EXCEPT ![c] = @ + 1]
    /\ gpc' = [gpc EXCEPT ![c] = "idle"]
    /\ UNCHANGED <<onceVars, onceMu, gkind, gcalls>>

NextGate ==
    /\ UNCHANGED <<normVars, pipeVars>>
    /\ \E c \in Callers :
          \/ GateCall(c, "write")
          \/ GateCall(c, "close")
          \/ GateEnter(c)
          \/ GateLock(c)
          \/ GateDoSlow(c)
          \/ GateIO(c)

SpecGate == InitGate /\ [][NextGate]_vars

(***************************************************************************)
(* openOutput: the udp packet size (SpecNorm).                             *)
(***************************************************************************)
\* Go's % truncates toward zero: the sign follows the dividend
GoRem(a, b) == IF a >= 0 THEN a % b ELSE -((-a) % b)

\* the earlier program: a multiple of 188, with no lower bound
NormalizePktSize_NoFloor(requested) ==
    requested - GoRem(requested, TsPacketSize)

\* pktSize -= pktSize % ts.PacketSize; if pktSize <= 0 { pktSize = ts.PacketSize }
NormalizePktSize(requested) ==
    LET p == requested - GoRem(requested, TsPacketSize)
    IN  IF p <= 0 THEN TsPacketSize ELSE p

FlagSizes == {DefaultPacketSize, 1500, 187}
UrlSizes == (0 - NegReq)..MaxReq

InitNorm ==
    /\ onceDone = FALSE /\ chCloses = 0
    /\ GateIdle /\ PipeIdle
    /\ npc = "start"
    /\ isUdp \in BOOLEAN
    /\ flagPktSize \in FlagSizes
    /\ urlPktSize \in ({[kind |-> "none", val |-> 0], [kind |-> "bad", val |-> 0]}
                       \cup [kind : {"int"}, val : UrlSizes])
    /\ pktSize = 0

\* the value the normalisation starts from: the URL's, else the flag's
Requested ==
    IF urlPktSize.kind = "int" THEN urlPktSize.val ELSE flagPktSize

\* uri.Scheme == "udp", pkt_size absent or an integer
OpenOutputUdp ==
    /\ npc = "start" /\ isUdp /\ urlPktSize.kind # "bad"
    /\ pktSize' = NormalizePktSize(Requested)
    /\ npc' = "done"
    /\ UNCHANGED <<isUdp, flagPktSize, urlPktSize>>

\* strconv.ParseInt fails: openOutput returns the error
OpenOutputBadSize ==
    /\ npc = "start" /\ isUdp /\ urlPktSize.kind = "bad"
    /\ npc' = "error"
    /\ UNCHANGED <<isUdp, flagPktSize, urlPktSize, pktSize>>

\* mpegts: with another scheme: the query is left alone
OpenOutputOther ==
    /\ npc = "start" /\ ~isUdp
    /\ npc' = "skipped"
    /\ UNCHANGED <<isUdp, flagPktSize, urlPktSize, pktSize>>

NextNorm ==
    /\ UNCHANGED <<onceVars, gateVars, pipeVars>>
    /\ \/ OpenOutputUdp
       \/ OpenOutputBadSize
       \/ OpenOutputOther

SpecNorm == InitNorm /\ [][NextNorm]_vars

(***************************************************************************)
(* The running pipeline (Spec).  Time is a discrete clock: Tick lets one   *)
(* unit pass; a time.After(T) timer counts down from T and has fired at 0. *)
(* A chunk is tagged with the number of the connection it was read from.   *)
(***************************************************************************)
Min(a, b) == IF a < b THEN a ELSE b
Max(a, b) == IF a > b THEN a ELSE b

\* the state when main calls ICECASTReader: openOutput has returned and,
\* for a muxed output, has started its three goroutines
InitPipe ==
    /\ onceDone = FALSE /\ chCloses = 0
    /\ GateIdle /\ NormIdle
    /\ proc = "running" /\ cancelled = FALSE
    /\ mainPc = "icecast" /\ mainTimer = 0 /\ mainBuf = 0
    /\ lastOutcome = "none" /\ mainExit = "none"
    /\ copied = FALSE /\ sinceCopy = 0 /\ mainIdle = 0
    /\ srPc = "off" /\ srTimer = 0 /\ f = "nil" /\ connLeft = 0
    /\ srLast = "none" /\ openHandles = 0 /\ srIdle = 0
    /\ openLog = <<>> /\ discCount = 0 /\ sinceReopen = 0
    /\ handoff = <<>> /\ handoffClosed = FALSE
    /\ writeIssued = FALSE /\ closeCalls = 0
    /\ pipe2 = <<>> /\ pipe2Closed = FALSE
    /\ servePc = (IF muxed THEN "waiting" ELSE "off")
    /\ drainPc = (IF muxed THEN "scan" ELSE "off")
    /\ shutPc = (IF muxed THEN "waiting" ELSE "off")
    /\ frameWritten = FALSE /\ wrCloses = 0 /\ muxCloses = 0
    /\ sinkLog = {} /\ sdt = "unset"

\* the output is a plain file: openOutput returns files.Create's writer
Init ==
    /\ muxed = FALSE
    /\ T \in 1..MaxTimeout
    /\ maxOpens = MaxOpens /\ maxChunks = MaxChunks /\ pipeCap = PipeCap
    /\ hdrs = "named" /\ closeErrs = {FALSE}
    /\ InitPipe

\* the output is udp: or mpegts:; the timers of main and of the reconnect
\* goroutine do not depend on the kind of output, so one timeout is enough
InitMux ==
    /\ muxed = TRUE
    /\ T = 1
    /\ maxOpens = MuxOpens /\ maxChunks = MuxChunks /\ pipeCap = MuxCap
    /\ hdrs = "named" /\ closeErrs = BOOLEAN
    /\ InitPipe

\* the kinds of source: one that is no headerer, one whose Icy-Name is
\* empty or missing, one that has an Icy-Name
HdrKinds == {"none", "unnamed", "named"}

\* either kind of output with every kind of source
InitSvc ==
    /\ muxed \in BOOLEAN
    /\ T = 1
    /\ maxOpens = MuxOpens /\ maxChunks = MuxChunks /\ pipeCap = MuxCap
    /\ hdrs \in HdrKinds /\ closeErrs = {FALSE}
    /\ InitPipe

Running == proc = "running"

(* ------------------------------ reopen --------------------------------- *)
\* a reopen that notifies only once the open has succeeded
reopen_DiscAfterOpen(ok, left) ==
    /\ discCount' = (IF ok THEN discCount + 1 ELSE discCount)
    /\ openLog' = Append(openLog, ok)
    /\ sinceReopen' = 0
    /\ f' = (IF ok THEN "open" ELSE "nil")
    /\ openHandles' = (IF ok THEN openHandles + 1 ELSE openHandles)
    /\ connLeft' = (IF ok THEN left ELSE 0)

\* reopen(): discontinuity(), then files.Open; (nil, err) when it fails
reopen(ok, left) ==
    /\ discCount' = discCount + 1
    /\ openLog' = Append(openLog, ok)
    /\ sinceReopen' = 0
    /\ f' = (IF ok THEN "open" ELSE "nil")
    /\ openHandles' = (IF ok THEN openHandles + 1 ELSE openHandles)
    /\ connLeft' = (IF ok THEN left ELSE 0)

(* ---------------------------- triggerWriter ---------------------------- *)
\* w.once.Do(w.trigger) with main as the only caller
OnceDoTrigger ==
    IF onceDone THEN UNCHANGED onceVars
    ELSE trigger /\ onceDone' = TRUE

\* a Write that forwards without resolving the gate
TWWrite_NoTrigger(ok) ==
    /\ UNCHANGED onceVars
    /\ writeIssued' = TRUE
    /\ pipe2' = (IF ok THEN Append(pipe2, mainBuf) ELSE pipe2)

\* triggerWriter.Write: resolve the gate, then w.w.Write(b) on the bufpipe
TWWrite(ok) ==
    /\ OnceDoTrigger
    /\ writeIssued' = TRUE
    /\ pipe2' = (IF ok THEN Append(pipe2, mainBuf) ELSE pipe2)

\* a Close that closes the bufpipe without resolving the gate
TWClose_NoTrigger ==
    /\ UNCHANGED onceVars
    /\ pipe2Closed' = TRUE

\* triggerWriter.Close: resolve the gate, then w.w.Close() on the bufpipe
TWClose ==
    /\ OnceDoTrigger
    /\ pipe2Closed' = TRUE

\* out.Write on a plain file
FileWrite(ok) ==
    /\ UNCHANGED <<onceVars, pipe2>>
    /\ writeIssued' = TRUE

(* -------------------------------- main --------------------------------- *)
\* in, err := ICECASTReader(...): the first reopen; on error main calls
\* glog.Fatalf
MainICECASTReader(ok, left) ==
    /\ Running /\ mainPc = "icecast"
    /\ reopen(ok, left)
    /\ IF ok
          THEN /\ mainPc' = "headers" /\ UNCHANGED proc
          ELSE /\ proc' = "fatal" /\ UNCHANGED mainPc
    /\ UNCHANGED <<onceVars, gateVars, normVars, confVars, cancelled,
                   mainTimer, mainBuf, lastOutcome, mainExit,
                   copied, sinceCopy, mainIdle, srPc, srTimer, srLast, srIdle,
                   handVars, sinkVars, taskVars>>

\* a name that is not replaced when Icy-Name is empty
ServiceName_NoFallback(h) == IF h = "named" THEN "icy" ELSE "unset"

\* name := printIcyHeaders(h); if name == "" { name = f.Name() }
ServiceName(h) == IF h = "named" THEN "icy" ELSE "file"

\* a DVBService that does not reach the multiplexer
DVBService_Dropped(name) == UNCHANGED sdt

\* DVBService(desc): if mux != nil { ... mux.SetDVBSDT(sdt) }
DVBService(name) == sdt' = (IF muxed THEN name ELSE sdt)

\* ICECASTReader after the first open: if f is a headerer the service
\* descriptor is built and handed to DVBService; then the reconnect
\* goroutine is started and the pipe returned to main
MainHeaders ==
    /\ Running /\ mainPc = "headers"
    /\ IF hdrs # "none"
          THEN DVBService(ServiceName(hdrs))
          ELSE UNCHANGED sdt
    /\ srPc' = "top" /\ mainPc' = "loop"
    /\ UNCHANGED <<onceVars, gateVars, normVars, confVars, proc, cancelled,
                   mainTimer, mainBuf, lastOutcome, mainExit,
                   copied, sinceCopy, mainIdle,
                   srTimer, f, connLeft, srLast, openHandles, srIdle,
                   openVars, handVars, sinkVars,
                   servePc, drainPc, shutPc, frameWritten, wrCloses, muxCloses,
                   sinkLog>>

\* top of the for loop: the ctx.Done() check, then wait := time.After(T)
MainLoopTop ==
    /\ Running /\ mainPc = "loop"
    /\ IF cancelled
          THEN /\ mainPc' = "close" /\ mainExit' = "cancel"
               /\ UNCHANGED <<mainTimer, copied, sinceCopy, mainIdle>>
          ELSE /\ mainPc' = "copy" /\ mainTimer' = T
               /\ copied' = TRUE /\ sinceCopy' = 0 /\ mainIdle' = 0
               /\ UNCHANGED mainExit
    /\ lastOutcome' = "none"
    /\ UNCHANGED <<onceVars, gateVars, normVars, confVars, proc, cancelled,
                   mainBuf, srVars, openVars, handVars,
                   sinkVars, taskVars>>

\* every result of files.Copy leaves the loop
Classify_BreakOnAny(outcome) ==
    /\ lastOutcome' = outcome
    /\ mainPc' = "close" /\ mainExit' = "eof"

\* lines 471-484: only err == io.EOF breaks; anything else goes to the wait
Classify(outcome) ==
    /\ lastOutcome' = outcome
    /\ IF outcome = "eof"
          THEN mainPc' = "close" /\ mainExit' = "eof"
          ELSE mainPc' = "wait" /\ UNCHANGED mainExit

\* files.Copy(ctx, out, in): read a chunk from the handoff pipe
OuterRead ==
    /\ Running /\ mainPc = "copy" /\ mainBuf = 0
    /\ handoff # <<>>
    /\ mainBuf' = Head(handoff)
    /\ handoff' = Tail(handoff)
    /\ mainIdle' = 0
    /\ UNCHANGED <<onceVars, gateVars, normVars, confVars, proc, cancelled,
                   mainPc, mainTimer, lastOutcome, mainExit,
                   copied, sinceCopy, srVars, openVars,
                   handoffClosed, sinkVars, taskVars>>

\* files.Copy: out.Write(chunk) succeeds
OuterWrite ==
    /\ Running /\ mainPc = "copy" /\ mainBuf # 0
    /\ IF muxed
          THEN /\ ~pipe2Closed /\ Len(pipe2) < pipeCap
               /\ TWWrite(TRUE)
          ELSE FileWrite(TRUE)
    /\ mainBuf' = 0
    /\ mainIdle' = 0
    /\ UNCHANGED <<gateVars, normVars, confVars, proc, cancelled,
                   mainPc, mainTimer, lastOutcome, mainExit,
                   copied, sinceCopy, srVars, openVars,
                   handVars, closeCalls, pipe2Closed, taskVars>>

\* files.Copy: out.Write(chunk) fails (a file error; on the bufpipe only
\* once the context is done); the copy returns the error
OuterWriteFail ==
    /\ Running /\ mainPc = "copy" /\ mainBuf # 0
    /\ IF muxed
          THEN cancelled /\ TWWrite(FALSE)
          ELSE FileWrite(FALSE)
    /\ mainBuf' = 0
    /\ mainIdle' = 0
    /\ Classify("err")
    /\ UNCHANGED <<gateVars, normVars, confVars, proc, cancelled,
                   mainTimer, copied, sinceCopy, srVars, openVars,
                   handVars, closeCalls, pipe2Closed, taskVars>>

\* files.Copy: the handoff pipe is closed and drained; the copy returns
\* nil or io.EOF
OuterEOF(outcome) ==
    /\ Running /\ mainPc = "copy" /\ mainBuf = 0
    /\ handoff = <<>> /\ handoffClosed
    /\ Classify(outcome)
    /\ mainIdle' = 0
    /\ UNCHANGED <<onceVars, gateVars, normVars, confVars, proc, cancelled,
                   mainTimer, mainBuf, copied, sinceCopy, srVars, openVars, handVars,
                   sinkVars, taskVars>>

\* files.Copy: the context is done; the copy returns ctx.Err()
OuterCancel ==
    /\ Running /\ mainPc = "copy" /\ cancelled
    /\ mainBuf' = 0
    /\ mainIdle' = 0
    /\ Classify("err")
    /\ UNCHANGED <<onceVars, gateVars, normVars, confVars, proc, cancelled,
                   mainTimer, copied, sinceCopy, srVars, openVars, handVars,
                   sinkVars, taskVars>>

\* a wait that does not wait for the timer
MainWaitFired_Immediate == TRUE

\* case <-wait: the timer started before the copy has fired
MainWaitFired == mainTimer = 0

\* select { case <-wait: ; case <-ctx.Done(): return }
MainWait ==
    /\ Running /\ mainPc = "wait"
    /\ \/ /\ MainWaitFired
          /\ mainPc' = "loop" /\ UNCHANGED mainExit
       \/ /\ cancelled
          /\ mainPc' = "close" /\ mainExit' = "cancel"
    /\ UNCHANGED <<onceVars, gateVars, normVars, confVars, proc, cancelled,
                   mainTimer, mainBuf, lastOutcome,
                   copied, sinceCopy, mainIdle, srVars, openVars,
                   handVars, sinkVars, taskVars>>

\* the deferred out.Close()
MainClose ==
    /\ Running /\ mainPc = "close"
    /\ closeCalls' = closeCalls + 1
    /\ IF muxed THEN TWClose ELSE UNCHANGED <<onceVars, pipe2Closed>>
    /\ mainPc' = "return"
    /\ UNCHANGED <<gateVars, normVars, confVars, proc, cancelled,
                   mainTimer, mainBuf, lastOutcome, mainExit,
                   copied, sinceCopy, mainIdle, srVars,
                   openVars, handVars, writeIssued, pipe2,
                   taskVars>>

\* the deferred cancel() and finish(): main returns and the process ends
MainReturn ==
    /\ Running /\ mainPc = "return"
    /\ cancelled' = TRUE
    /\ proc' = "exited" /\ mainPc' = "exited"
    /\ UNCHANGED <<onceVars, gateVars, normVars, confVars,
                   mainTimer, mainBuf, lastOutcome, mainExit,
                   copied, sinceCopy, mainIdle, srVars,
                   openVars, handVars, sinkVars, taskVars>>

(* ---------------- ICECASTReader: the reconnect goroutine ---------------- *)
\* top of the for loop: wait := time.After(Flags.Timeout)
SRTop ==
    /\ Running /\ srPc = "top"
    /\ srTimer' = T
    /\ srLast' = "none"
    /\ srIdle' = 0
    /\ srPc' = "copy"
    /\ UNCHANGED <<onceVars, gateVars, normVars, confVars, proc, cancelled,
                   mainVars, f, connLeft, openHandles, openVars, handVars,
                   sinkVars, taskVars>>

\* the loop body with f == nil after a failed reopen: files.Copy reads from
\* a nil Reader and f.Close() is called on a nil interface: the goroutine
\* panics and the process dies
SRCopyNil ==
    /\ Running /\ srPc = "copy" /\ f = "nil"
    /\ proc' = "panic"
    /\ UNCHANGED <<onceVars, gateVars, normVars, confVars, cancelled,
                   mainVars, srVars, openVars, handVars, sinkVars, taskVars>>

\* files.Copy(ctx, pipe, f): one chunk from the source into the handoff pipe
SRCopyChunk ==
    /\ Running /\ srPc = "copy" /\ f = "open"
    /\ connLeft > 0 /\ Len(handoff) < pipeCap
    /\ connLeft' = connLeft - 1
    /\ srIdle' = 0
    /\ handoff' = Append(handoff, Len(openLog))
    /\ UNCHANGED <<onceVars, gateVars, normVars, confVars, proc, cancelled,
                   mainVars, srPc, srTimer, f, srLast, openHandles, openVars,
                   handoffClosed, sinkVars, taskVars>>

\* a loop body that leaves the handle open
SourceClose_Leak == UNCHANGED openHandles

\* f.Close() after files.Copy, whatever the copy returned
SourceClose == openHandles' = openHandles - 1

\* files.Copy returns: "eof" at the source's clean end, "err" for a read
\* error, a stall or a done context; then f.Close() and the log line
SRCopyEnd(outcome) ==
    /\ Running /\ srPc = "copy" /\ f = "open"
    /\ outcome = "eof" => connLeft = 0
    /\ f' = "closed"
    /\ SourceClose
    /\ srIdle' = 0
    /\ srLast' = outcome
    /\ srPc' = "wait"
    /\ UNCHANGED <<onceVars, gateVars, normVars, confVars, proc, cancelled,
                   mainVars, srTimer, connLeft, openVars, handVars,
                   sinkVars, taskVars>>

\* a loop that does not wait for the timer
SRWaitFired_Immediate == TRUE

\* case <-wait: the timer started at the top of the iteration has fired
SRWaitFired == srTimer = 0

\* a loop that stops after a clean end of the source
SRMayReturn_OnEof == cancelled \/ srLast = "eof"

\* case <-ctx.Done(): return
SRMayReturn == cancelled

\* select { case <-wait: ; case <-ctx.Done(): return }; the return runs the
\* deferred pipe.Close()
SRWait ==
    /\ Running /\ srPc = "wait"
    /\ \/ /\ SRWaitFired
          /\ srPc' = "reopen"
          /\ UNCHANGED handoffClosed
       \/ /\ SRMayReturn
          /\ srPc' = "exit"
          /\ handoffClosed' = TRUE
    /\ UNCHANGED <<onceVars, gateVars, normVars, confVars, proc, cancelled,
                   mainVars, srTimer, f, connLeft, srLast, openHandles, srIdle, openVars,
                   handoff, sinkVars, taskVars>>

\* f, err = reopen(); an error is only logged
SRReopen(ok, left) ==
    /\ Running /\ srPc = "reopen"
    /\ Len(openLog) < maxOpens
    /\ reopen(ok, left)
    /\ srPc' = "top"
    /\ UNCHANGED <<onceVars, gateVars, normVars, confVars, proc, cancelled,
                   mainVars, srTimer, srLast, srIdle, handVars, sinkVars, taskVars>>

(* ------------------- openOutput: the three goroutines ------------------ *)
\* the deferred function of the drain goroutine: wr.Close(), its error
\* logged, then wg.Done()
DrainDeferred(cerr, logged) ==
    /\ wrCloses' = wrCloses + 1
    /\ sinkLog' = sinkLog \cup logged
                           \cup (IF cerr THEN {"wrClose"} ELSE {})
    /\ drainPc' = "done"

\* a serve task that does not wait for the gate
TriggerFired_NoWait == TRUE

\* <-out.Trigger(): the receive returns once the channel is closed
TriggerFired == chCloses >= 1

\* the gated-serve goroutine passes the gate and calls mux.Serve(ctx)
ServeStart ==
    /\ Running /\ servePc = "waiting"
    /\ TriggerFired
    /\ servePc' = "serving"
    /\ UNCHANGED <<onceVars, gateVars, normVars, confVars, proc, cancelled,
                   mainVars, srVars, openVars, handVars, sinkVars,
                   drainPc, shutPc, frameWritten, wrCloses, muxCloses,
                   sinkLog, sdt>>

\* a serve task that only logs the error
ServeError_LogOnly ==
    /\ Running /\ servePc = "serving"
    /\ servePc' = "failed"
    /\ UNCHANGED <<onceVars, gateVars, normVars, confVars, proc, cancelled,
                   mainVars, srVars, openVars, handVars, sinkVars,
                   drainPc, shutPc, frameWritten, wrCloses, muxCloses,
                   sinkLog, sdt>>

\* mux.Serve delivers an error: glog.Fatalf
ServeError ==
    /\ Running /\ servePc = "serving"
    /\ servePc' = "failed"
    /\ proc' = "fatal"
    /\ UNCHANGED <<onceVars, gateVars, normVars, confVars, cancelled,
                   mainVars, srVars, openVars, handVars, sinkVars,
                   drainPc, shutPc, frameWritten, wrCloses, muxCloses,
                   sinkLog, sdt>>

\* the context is done: mux.Serve's channel is closed and the range ends
ServeStop ==
    /\ Running /\ servePc = "serving" /\ cancelled
    /\ servePc' = "done"
    /\ UNCHANGED <<onceVars, gateVars, normVars, confVars, proc, cancelled,
                   mainVars, srVars, openVars, handVars, sinkVars,
                   drainPc, shutPc, frameWritten, wrCloses, muxCloses,
                   sinkLog, sdt>>

\* the drain goroutine: s.Scan() yields a frame and wr.Write(b) succeeds
DrainFrame ==
    /\ Running /\ drainPc = "scan"
    /\ pipe2 # <<>>
    /\ pipe2' = Tail(pipe2)
    /\ frameWritten' = TRUE
    /\ UNCHANGED <<onceVars, gateVars, normVars, confVars, proc, cancelled,
                   mainVars, srVars, openVars, handVars,
                   writeIssued, closeCalls, pipe2Closed,
                   servePc, drainPc, shutPc, wrCloses, muxCloses, sinkLog,
                   sdt>>

\* wr.Write(b) fails: log, return; the deferred wr.Close() and wg.Done()
DrainWriteErr(cerr) ==
    /\ Running /\ drainPc = "scan"
    /\ pipe2 # <<>>
    /\ pipe2' = Tail(pipe2)
    /\ DrainDeferred(cerr, {"write"})
    /\ UNCHANGED <<onceVars, gateVars, normVars, confVars, proc, cancelled,
                   mainVars, srVars, openVars, handVars,
                   writeIssued, closeCalls, pipe2Closed,
                   servePc, shutPc, frameWritten, muxCloses, sdt>>

\* s.Scan() returns false at the end of the closed pipe, and s.Err() is nil
DrainEof == pipe2 = <<>> /\ pipe2Closed

\* s.Scan() returns false: the pipe is closed and empty, or the read fails
\* because the context is done and s.Err() is logged; then the deferred
\* function
DrainEnd(cerr) ==
    /\ Running /\ drainPc = "scan"
    /\ \/ /\ DrainEof
          /\ DrainDeferred(cerr, {})
       \/ /\ cancelled
          /\ DrainDeferred(cerr, {"scan"})
    /\ UNCHANGED <<onceVars, gateVars, normVars, confVars, proc, cancelled,
                   mainVars, srVars, openVars, handVars, sinkVars,
                   servePc, shutPc, frameWritten, muxCloses, sdt>>

\* a shutdown that does not wait for the drain goroutine
WgDone_NoWait == TRUE

\* wg.Wait() returns once the drain goroutine has called wg.Done()
WgDone == drainPc = "done"

\* the shutdown goroutine: wg.Wait() returns, then mux.Close(), its errors
\* logged
Shutdown(merr) ==
    /\ Running /\ shutPc = "waiting"
    /\ WgDone
    /\ muxCloses' = muxCloses + 1
    /\ sinkLog' = sinkLog \cup (IF merr THEN {"muxClose"} ELSE {})
    /\ shutPc' = "done"
    /\ UNCHANGED <<onceVars, gateVars, normVars, confVars, proc, cancelled,
                   mainVars, srVars, openVars, handVars, sinkVars,
                   servePc, drainPc, frameWritten, wrCloses, sdt>>

(* --------------------------- the environment --------------------------- *)
\* the process is signalled: the context of process.Init is cancelled
Cancel ==
    /\ Running /\ ~cancelled
    /\ cancelled' = TRUE
    /\ UNCHANGED <<onceVars, gateVars, normVars, confVars, proc,
                   mainVars, srVars, openVars, handVars, sinkVars, taskVars>>

\* a copy without a watchdog
WatchdogDue_None == FALSE

\* files.WithWatchdogTimeout(Flags.Timeout) on the inner copy: when the copy
\* has made no progress for T it is aborted before more time passes
WatchdogDue == srPc = "copy" /\ f = "open" /\ srIdle >= T

\* one unit of time passes: running timers count down; the outer copy of
\* main has no watchdog, so its idle time is not bounded
Tick ==
    /\ Running
    /\ ~WatchdogDue
    /\ mainTimer' = Max(mainTimer - 1, 0)
    /\ srTimer' = Max(srTimer - 1, 0)
    /\ sinceReopen' = Min(sinceReopen + 1, T)
    /\ sinceCopy' = Min(sinceCopy + 1, T)
    /\ mainIdle' = (IF mainPc = "copy" THEN Min(mainIdle + 1, T + 1) ELSE mainIdle)
    /\ srIdle' = (IF srPc = "copy" /\ f = "open"
                   THEN Min(srIdle + 1, T + 1) ELSE srIdle)
    /\ UNCHANGED <<onceVars, gateVars, normVars, confVars, proc, cancelled,
                   mainPc, mainBuf, lastOutcome, mainExit, copied,
                   srPc, f, connLeft, srLast, openHandles, openLog, discCount,
                   handVars, sinkVars, taskVars>>

\* main and the reconnect goroutine
NextCore ==
    \/ \E ok \in BOOLEAN, left \in 0..maxChunks : MainICECASTReader(ok, left)
    \/ MainHeaders
    \/ MainLoopTop
    \/ OuterRead
    \/ OuterWrite
    \/ OuterWriteFail
    \/ \E outcome \in {"ok", "eof"} : OuterEOF(outcome)
    \/ OuterCancel
    \/ MainWait
    \/ MainClose
    \/ MainReturn
    \/ SRTop
    \/ SRCopyNil
    \/ SRCopyChunk
    \/ \E outcome \in {"eof", "err"} : SRCopyEnd(outcome)
    \/ SRWait
    \/ \E ok \in BOOLEAN, left \in 0..maxChunks : SRReopen(ok, left)
    \/ Cancel
    \/ Tick

\* the goroutines of a muxed output
NextSink ==
    \/ ServeStart
    \/ ServeError
    \/ ServeStop
    \/ DrainFrame
    \/ \E cerr \in closeErrs : DrainWriteErr(cerr)
    \/ \E cerr \in closeErrs : DrainEnd(cerr)
    \/ \E merr \in closeErrs : Shutdown(merr)

NextMux == NextCore \/ NextSink

Spec == Init /\ [][NextCore]_vars

SpecMux == InitMux /\ [][NextMux]_vars

SpecSvc == InitSvc /\ [][NextMux]_vars

(* ------------------------------ scheduling ------------------------------ *)
\* The Go scheduler runs every goroutine that can take a step.  Nothing is
\* assumed of the clock, of the signal, of the errors a writer or mux.Serve
\* may deliver, or of the moment the process ends once main has returned.
MainStep ==
    \/ \E ok \in BOOLEAN, left \in 0..maxChunks : MainICECASTReader(ok, left)
    \/ MainHeaders
    \/ MainLoopTop
    \/ OuterRead
    \/ OuterWrite
    \/ OuterWriteFail
    \/ \E outcome \in {"ok", "eof"} : OuterEOF(outcome)
    \/ OuterCancel
    \/ MainWait
    \/ MainClose

SRStep ==
    \/ SRTop
    \/ SRCopyNil
    \/ SRCopyChunk
    \/ \E outcome \in {"eof", "err"} : SRCopyEnd(outcome)
    \/ SRWait
    \/ \E ok \in BOOLEAN, left \in 0..maxChunks : SRReopen(ok, left)

ServeStep == ServeStart \/ ServeStop

DrainStep == DrainFrame \/ \E cerr \in closeErrs : DrainEnd(cerr)

ShutStep == \E merr \in closeErrs : Shutdown(merr)

\* a muxed output, the close calls succeeding; what cancellation has to
\* unblock does not depend on the amount of data, so a connection yields at
\* most one chunk and a pipe holds one
InitFair ==
    /\ muxed = TRUE
    /\ T = 1
    /\ maxOpens = MuxOpens /\ maxChunks = 1 /\ pipeCap = 1
    /\ hdrs = "named" /\ closeErrs = {FALSE}
    /\ InitPipe

FairSpec ==
    /\ InitFair /\ [][NextMux]_vars
    /\ WF_vars(MainStep) /\ WF_vars(SRStep)
    /\ WF_vars(ServeStep) /\ WF_vars(DrainStep) /\ WF_vars(ShutStep)

(***************************************************************************)
(* Properties.                                                             *)
(***************************************************************************)
Served == servePc \in {"serving", "failed", "done"}

\* C1 (SpecGate): whatever the interleaving of Write and Close calls, the
\* channel is closed at most once; it is closed as soon as one call has got
\* past once.Do; and it is not closed while no call has been made.
C1_ExactlyOnce ==
    /\ chCloses <= 1
    /\ (\E c \in Callers : gcalls[c] >= 1 /\ gpc[c] \in {"io", "idle"})
          => chCloses = 1
    /\ (\A c \in Callers : gcalls[c] = 0) => chCloses = 0

\* C1 witness: a Write and a Close of two callers have both completed
C1_Witness ==
    \E c, d \in Callers :
        /\ gkind[c] = "write" /\ gkind[d] = "close"
        /\ gio[c] >= 1 /\ gio[d] >= 1
        /\ chCloses = 1

\* C2 as stated (SpecMux): mux.Serve is started only after a Write carrying
\* payload has been issued on the sink.
C2_ServeOnlyAfterPayload == Served => writeIssued

\* C2 amended (SpecMux): mux.Serve is started only after a Write or a Close
\* has been issued on the sink.
C2_ServeOnlyAfterWriteOrClose ==
    Served => (writeIssued \/ closeCalls >= 1)

\* C2 witness: the sink was closed with no payload written, and mux.Serve
\* was started
C2_Witness ==
    servePc = "serving" /\ ~writeIssued /\ closeCalls = 1

\* C3 (Spec): a reopen that follows an earlier one is made only when at
\* least T has passed since that earlier one.
C3_ReopenThrottle ==
    [][(Len(openLog') > Len(openLog) /\ Len(openLog) >= 1)
          => sinceReopen >= T]_vars

\* C3 witness: three attempts have been made, the last one failing, with the
\* largest timeout
C3_Witness ==
    Len(openLog) = 3 /\ ~openLog[3] /\ T = MaxTimeout

\* C4 as stated (Spec): the reconnect loop stops only on cancellation, never
\* by a crash, whatever number of reopens fail.
C4_FailedReopenKeepsLooping ==
    /\ srPc = "exit" => cancelled
    /\ proc # "panic"

\* C5 as stated (Spec): the process goes on when files.Open fails, the very
\* first open included.
C5_ScenarioB ==
    (\E i \in 1..Len(openLog) : ~openLog[i]) => proc \notin {"fatal", "panic"}

\* C6 (Spec): discontinuity() has been invoked once per open attempt, the
\* first included, and every chunk on its way downstream comes from a
\* successful open that the notification preceded.
C6_DiscontinuityPairing ==
    /\ discCount = Len(openLog)
    /\ \A i \in 1..Len(handoff) :
          /\ handoff[i] \in 1..discCount
          /\ openLog[handoff[i]]
    /\ mainBuf # 0 => (mainBuf \in 1..discCount /\ openLog[mainBuf])

\* C6 witness: a chunk of the second connection is in the handoff pipe
C6_Witness ==
    /\ Len(openLog) >= 2 /\ discCount >= 2
    /\ handoff # <<>> /\ handoff[Len(handoff)] = 2

\* C7 as stated (Spec): after the source's clean end-of-stream no further
\* reopen is attempted.
C7_NoReopenAfterEos ==
    srLast = "eof" => srPc \in {"wait", "reopen", "exit"}

\* chunks travel in the order of their connections
InOrder ==
    /\ \A i, j \in 1..Len(handoff) : i <= j => handoff[i] <= handoff[j]
    /\ (mainBuf # 0 /\ handoff # <<>>) => mainBuf <= handoff[1]

\* C7 amended (Spec): at the source's clean end-of-stream every chunk of the
\* connection has been forwarded, in order, and the handle is closed; the
\* goroutine then reopens once the timer has fired, and returns only on
\* cancellation; main's loop leaves on end-of-stream only once the handoff
\* pipe is closed and drained.
C7_EosThenReopen ==
    /\ (srLast = "eof" /\ srPc \in {"wait", "reopen"})
          => (connLeft = 0 /\ f = "closed")
    /\ InOrder
    /\ srPc = "reopen" => srTimer = 0
    /\ srPc = "exit" => (cancelled /\ handoffClosed)
    /\ mainExit = "eof" => (handoffClosed /\ handoff = <<>>)

\* C7 witness: after a clean end-of-stream of the first connection, with no
\* cancellation, the source has been opened again
C7_Witness ==
    /\ srLast = "eof" /\ srPc = "top"
    /\ Len(openLog) = 2 /\ openLog[2] /\ ~cancelled

\* C8 (SpecNorm): the packet size is requested - (requested mod 188), or 188
\* when that is not positive; it is a positive multiple of 188, the largest
\* one not above a request of 188 or more, and the listed cases hold.
C8_Normalization ==
    npc = "done" =>
        LET n == Requested - (Requested % TsPacketSize)
        IN  /\ pktSize = (IF n <= 0 THEN TsPacketSize ELSE n)
            /\ pktSize > 0 /\ pktSize % TsPacketSize = 0
            /\ Requested >= TsPacketSize
                  => (pktSize <= Requested /\ Requested < pktSize + TsPacketSize)
            /\ Requested = 1500 => pktSize = 1316
            /\ Requested = 1316 => pktSize = 1316
            /\ Requested = 189 => pktSize = 188
            /\ Requested = 187 => pktSize = 188
            /\ Requested = 0 => pktSize = 188
            /\ Requested = 376 => pktSize = 376

\* C8 witness: the URL asks for 1500 and 1316 is written back
C8_Witness ==
    /\ npc = "done" /\ urlPktSize.kind = "int"
    /\ Requested = 1500 /\ pktSize = 1316

\* C9 as stated (SpecMux): mux.Serve is started no earlier than the drain
\* task's first successful frame write.
C9_ServeAfterFirstFrame == Served => frameWritten

\* C9 amended (SpecMux): the start of mux.Serve and the drain task's first
\* frame write both come after the gate's resolution, the frame write after
\* a Write on the sink; the two are not ordered with each other.
C9_BothAfterGate ==
    /\ Served => chCloses = 1
    /\ frameWritten => (chCloses = 1 /\ writeIssued)

\* C9 witness: mux.Serve has started after the producer's Write and before
\* the drain task has written a frame
C9_Witness ==
    /\ servePc = "serving" /\ ~frameWritten
    /\ writeIssued /\ closeCalls = 0 /\ pipe2 # <<>>

\* C10 (Spec): main's loop is left only by cancellation or end-of-stream;
\* end-of-stream leaves it, any other result goes to the wait; out.Close has
\* been called once when the loop has been left and not before.
C10_Classification ==
    /\ mainPc \in {"close", "return", "exited"}
          <=> mainExit \in {"cancel", "eof"}
    /\ mainExit = "cancel" => cancelled
    /\ mainExit = "eof" <=> lastOutcome = "eof"
    /\ mainPc = "wait" => lastOutcome \in {"ok", "err"}
    /\ closeCalls = (IF mainPc \in {"return", "exited"} THEN 1 ELSE 0)

\* C10 witness: the copy returned end-of-stream, the loop was left and the
\* sink closed
C10_Witness ==
    /\ mainPc = "exited" /\ mainExit = "eof" /\ closeCalls = 1

\* C14 (SpecGate): a caller that is about to invoke the underlying writer's
\* Write or Close finds the channel closed, whether or not it closed it
\* itself, and every call that has returned was forwarded exactly once.
C14_ResolveBeforeIO ==
    \A c \in Callers :
        /\ gpc[c] = "io" => (chCloses = 1 /\ onceDone)
        /\ gio[c] = gcalls[c] - (IF gpc[c] = "idle" THEN 0 ELSE 1)

\* C14 witness: two callers are both about to invoke the underlying writer,
\* and the channel was closed once: one of them did not close it
C14_Witness ==
    \E c, d \in Callers :
        /\ c # d /\ gpc[c] = "io" /\ gpc[d] = "io"
        /\ gkind[c] = "write" /\ gkind[d] = "close"
        /\ chCloses = 1

\* C13 (Spec): at most one source handle is open at any time, and none is
\* open while the goroutine waits for the timer or is about to reopen: the
\* handle of the preceding copy was closed, whether that copy ended cleanly
\* or with an error.
C13_SingleHandle ==
    /\ openHandles \in {0, 1}
    /\ openHandles = 1 <=> f = "open"
    /\ srPc \in {"wait", "reopen"} => openHandles = 0

\* C13 witness: the second connection is open after the first copy ended
\* with an error and its handle was closed
C13_Witness ==
    /\ Len(openLog) = 2 /\ openLog[1] /\ openLog[2]
    /\ srLast = "err" /\ openHandles = 1 /\ srPc = "top"

\* C15 as stated (Spec): the outer copy in main is aborted when it has made
\* no progress within the watchdog window T.
C15_OuterWatchdog == mainPc = "copy" => mainIdle <= T

\* C15 amended (Spec): the watchdog bounds the inner copy, from the source
\* into the handoff pipe: that copy never goes longer than T without
\* progress.  The outer copy carries no watchdog: it returns an error only
\* for a failed write or a done context, and may sit idle longer than T.
C15_InnerWatchdog ==
    /\ (srPc = "copy" /\ f = "open") => srIdle <= T
    /\ (mainPc = "wait" /\ lastOutcome = "err") => (cancelled \/ writeIssued)

\* C15 witness: the outer copy has been idle for longer than T, with no
\* cancellation, while the inner copy was aborted and the source reopened
C15_Witness ==
    /\ mainPc = "copy" /\ mainIdle > T /\ ~cancelled
    /\ srPc = "copy" /\ f = "open" /\ Len(openLog) >= 2

\* C16 (Spec): an outer copy that is not main's first starts only when at
\* least T has passed since the start of the preceding outer copy.
C16_IterationFloor ==
    [][(mainPc # "copy" /\ mainPc' = "copy" /\ copied) => sinceCopy >= T]_vars

\* C16 witness: with the largest timeout and no cancellation, a copy has
\* returned an error and main is back at the top of the loop
C16_Witness ==
    /\ mainPc = "loop" /\ copied /\ lastOutcome = "err"
    /\ ~cancelled /\ T = MaxTimeout /\ sinceCopy = T

\* C12 (SpecMux): a step in which the drain or the shutdown goroutine logs
\* an error leaves the process running; an error delivered by mux.Serve
\* ends the process; and the process ends by glog.Fatalf only for such an
\* error or for the failure of ICECASTReader's first open.
C12_ErrorPolicy ==
    /\ [](servePc = "failed" => proc = "fatal")
    /\ [](proc = "fatal" => (servePc = "failed" \/ mainPc = "icecast"))
    /\ [][sinkLog' # sinkLog => (proc = "running" /\ proc' = "running")]_vars

\* C12 witness: a frame write, the writer's Close and mux.Close have all
\* failed, and the process runs on with mux.Serve serving
C12_Witness ==
    /\ {"write", "wrClose", "muxClose"} \subseteq sinkLog
    /\ proc = "running" /\ servePc = "serving"

\* C17 (SpecMux): the program writer is closed exactly when the drain
\* goroutine has ended, by whichever path, and no frame is taken from the
\* pipe and written after that; the multiplexer is closed only once the
\* writer's Close has returned; neither is closed twice.
C17_ShutdownOrder ==
    /\ [](wrCloses = (IF drainPc = "done" THEN 1 ELSE 0))
    /\ [](muxCloses = (IF shutPc = "done" THEN 1 ELSE 0))
    /\ [](muxCloses = 1 => wrCloses = 1)
    /\ [][Len(pipe2') < Len(pipe2) => wrCloses = 0]_vars

\* C17 witness: the drain goroutine ended on a write error after it had
\* written a frame, and the writer and then the multiplexer were closed
C17_Witness ==
    /\ frameWritten /\ "write" \in sinkLog
    /\ drainPc = "done" /\ wrCloses = 1 /\ muxCloses = 1

\* C20 as stated (SpecMux): discontinuity(), which is the program writer's
\* Discontinuity method, is not invoked once the drain goroutine has closed
\* the writer.
C20_NoUseAfterClose ==
    [][discCount' > discCount => wrCloses = 0]_vars

\* C18 (SpecSvc): mux.Serve is started only once ICECASTReader has returned,
\* and, for a source with headers, only with the service table configured.
C18_TableBeforeServe ==
    Served => /\ mainPc \notin {"icecast", "headers"}
              /\ hdrs # "none" => sdt # "unset"

\* C18 witness: with an unnamed source, mux.Serve has started on main's first
\* Write, with the service table configured
C18_Witness ==
    /\ servePc = "serving" /\ writeIssued /\ closeCalls = 0
    /\ hdrs = "unnamed" /\ sdt = "file"

\* C19 as stated (SpecSvc): once ICECASTReader has returned, a service table
\* is configured exactly when the source has headers and a non-empty
\* Icy-Name.
C19_PresentOnlyIfNamed ==
    mainPc \notin {"icecast", "headers"}
        => (sdt # "unset" <=> (muxed /\ hdrs = "named"))

\* C19 amended (SpecSvc): once ICECASTReader has returned, a service table
\* is configured exactly when the output is muxed and the source has
\* headers; its name is Icy-Name when that is non-empty and the source's
\* file name otherwise.  No table is configured before.
C19_PresentIfHeaders ==
    IF mainPc \in {"icecast", "headers"}
    THEN sdt = "unset"
    ELSE /\ sdt # "unset" <=> (muxed /\ hdrs # "none")
         /\ sdt = "icy" => hdrs = "named"
         /\ sdt = "file" => hdrs = "unnamed"

\* C19 witness: a muxed output and a source with headers and no Icy-Name:
\* the table carries the file name
C19_Witness ==
    /\ muxed /\ hdrs = "unnamed" /\ sdt = "file" /\ mainPc = "loop"

\* every task has ended: main has run its deferred Close and is returning
TasksDone ==
    /\ mainPc \in {"return", "exited"} /\ srPc = "exit"
    /\ servePc = "done" /\ drainPc = "done" /\ shutPc = "done"

\* the run's budget of opens is spent and the goroutine is at a reopen
OpensSpent == srPc = "reopen" /\ Len(openLog) = maxOpens

\* C11 (FairSpec): once the context is cancelled, the process ends or every
\* task ends: main, the reconnect goroutine, and the drain, gated-serve and
\* shutdown goroutines; no tick of the clock is needed for that.
C11_CancelTerminates ==
    cancelled ~> (proc # "running" \/ TasksDone \/ OpensSpent)

\* C11 witness: the context was cancelled, no payload was ever written, and
\* every task has ended, the gated-serve goroutine included
C11_Witness ==
    /\ cancelled /\ proc = "running" /\ TasksDone
    /\ ~writeIssued

\* C21 as stated (SpecMux): a frame that the drain goroutine writes to the
\* program writer comes from the connection of the latest discontinuity()
\* call: once discontinuity() has been invoked for a reopen, no chunk read
\* from an earlier connection is written.
C21_DiscontinuityAligned ==
    [][(drainPc = "scan" /\ drainPc' = "scan" /\ Len(pipe2') < Len(pipe2))
          => Head(pipe2) >= discCount]_vars

====
